---- MODULE Spec2Model ----
(***************************************************************************)
(* Model of the DID registry and resolver of main.go.                      *)
(*                                                                         *)
(* A VerifiableDataRegistry is a mutex and a Go map from identifier to     *)
(* DIDDocument.  A DIDDocument is a struct: three strings and three        *)
(* reference-typed fields (a slice and two maps).  Storing or loading a    *)
(* document copies the struct word by word: the strings by value, the      *)
(* slice and the maps by reference.  The objects those references point to *)
(* live on the heap and are shared by every copy of the struct.            *)
(*                                                                         *)
(* Callers are goroutines 1..NumProcs.  Each builds documents as main()    *)
(* does (its own subject, its own freshly allocated slice and maps) and    *)
(* calls RegisterDID and ResolveDID on the one registry.                   *)
(*                                                                         *)
(* Specifications:                                                         *)
(*   Spec             goroutines calling the registry main() constructs    *)
(*   FairSpec         Spec under fair scheduling and fair Lock             *)
(*   SpecAnyRegistry  the same calls on a made or a zero-value registry    *)
(*   SpecMain         the sequence of main() itself                        *)
(***************************************************************************)
EXTENDS Integers, FiniteSets, Sequences, TLC

\* Number of concurrent callers (goroutines).
NumProcs == 2

\* Total number of operations callers perform in a run: RegisterDID calls,
\* ResolveDID calls, and writes to document values they hold (a string field
\* of their own struct, a slice element, a map entry).
MaxOps == 4

Procs == 1..NumProcs

\* Identifiers callers register and resolve; "" is the empty identifier.
IDs == {"", "did:example:subject1"}

\* main.go:78  subjectID of caller p.
Subject(p) == "subject" \o ToString(p)

\* The nil slice / nil map.
Nil == 0

\* The unlocked state of sync.Mutex.
Unlocked == 0

RefFields == {"VerificationMethods", "VerificationRelations", "ServiceEndPoints"}

\* main.go:21-28  the zero value of DIDDocument.
ZeroDoc ==
  [Context |-> "", ID |-> "", Controller |-> "",
   VerificationMethods |-> Nil, VerificationRelations |-> Nil,
   ServiceEndPoints |-> Nil]

\* main.go:80-87  the document caller p builds for identifier id: its slice
\* and its two maps are the objects allocated by p's composite literal, at
\* heap address p.
BuildDoc(id, p) ==
  [Context |-> "https://www.w3.org/ns/did/v1", ID |-> id,
   Controller |-> Subject(p),
   VerificationMethods |-> p, VerificationRelations |-> p,
   ServiceEndPoints |-> p]

VARIABLES
  mu,         \* registry.mu: Unlocked or the goroutine holding it
  records,    \* registry.records: a function whose DOMAIN is the key set
  heap,       \* heap[a][f]: number of writes made to the object field f of
              \* the document built at address a refers to (0: as built)
  pc,         \* pc[p]: where goroutine p is
  argDoc,     \* RegisterDID's parameter doc (a copy of the caller's value)
  argDid,     \* ResolveDID's parameter did
  elem,       \* the map element the running map operation points at
  doc,        \* ResolveDID's local doc
  found,      \* ResolveDID's local found
  ret,        \* what the finished call returned to the caller
  ops,        \* number of caller operations started so far
  registered, \* history: every identifier passed as doc.ID to RegisterDID
  lastReg,    \* history: per identifier, the document of the latest RegisterDID
  overwritten,\* history: identifiers whose document was replaced by another
  allowed,    \* history: per running ResolveDID, what was stored under did when
              \* it was called and every document registered under did since
  made,       \* whether registry.records was constructed with make (non-nil)
  main,       \* where main() is, the key it generated and what it printed
  allocs      \* number of DIDDocument variables allocated for returned pointers

vars == <<mu, records, heap, pc, argDoc, argDid, elem, doc, found, ret,
          ops, registered, lastReg, overwritten, allowed, made, main, allocs>>

\* What no step of RegisterDID or ResolveDID changes: how the registry was
\* constructed and the position of main().
setup == <<made, main>>

locals == <<argDoc, argDid, elem, doc, found, ret>>
history == <<ops, registered, lastReg, overwritten, allowed>>

\* The "no element" pointer: mapaccess2 returns a pointer to a shared zero
\* value when the key is absent.
ZeroElem == <<"zero">>

\* What a caller holds before any call has returned to it.
NoRet == [kind |-> "none"]

\* What main() is before it runs, and in a program whose goroutines use the
\* registry without going through main()'s sequence.
NotInMain == [pc |-> "off", err |-> "nil", key |-> 0, out |-> "none"]

\* No call has been made on the registry: an unlocked mutex (the zero
\* sync.Mutex), a map without entries, every goroutine idle.
NoCallYet ==
  /\ mu = Unlocked
  /\ records = <<>>
  /\ heap = [a \in Procs |-> [f \in RefFields |-> 0]]
  /\ pc = [p \in Procs |-> "idle"]
  /\ argDoc = [p \in Procs |-> ZeroDoc]
  /\ argDid = [p \in Procs |-> ""]
  /\ elem = [p \in Procs |-> ZeroElem]
  /\ doc = [p \in Procs |-> ZeroDoc]
  /\ found = [p \in Procs |-> FALSE]
  /\ ret = [p \in Procs |-> NoRet]
  /\ ops = 0
  /\ registered = {}
  /\ lastReg = <<>>
  /\ overwritten = {}
  /\ allowed = [p \in Procs |-> {}]
  /\ allocs = 0

\* main.go:89-92  registry := VerifiableDataRegistry{records: make(...)}:
\* an unlocked mutex and an empty, constructed map; no call has been made.
Init ==
  /\ NoCallYet
  /\ made = TRUE
  /\ main = NotInMain

(***************************************************************************)
(* Go map and struct-copy primitives                                       *)
(***************************************************************************)

\* m[k] = v on a function with a dynamic domain.
MapPut(m, k, v) == [x \in DOMAIN m \cup {k} |-> IF x = k THEN v ELSE m[x]]

\* runtime.mapassign: the map after the slot for key is located; a key that is
\* absent is inserted with a zeroed element, every other entry is kept.
MapassignClearsOthers(m, key) == [x \in {key} |-> IF key \in DOMAIN m THEN m[key] ELSE ZeroDoc]
Mapassign(m, key) ==
  IF key \in DOMAIN m THEN m ELSE MapPut(m, key, ZeroDoc)

\* runtime.mapaccess2 leaves the map as it is: a lookup of an absent key
\* inserts nothing.
MapaccessInserts(m, key) ==
  IF key \in DOMAIN m THEN m ELSE MapPut(m, key, ZeroDoc)
Mapaccess(m, key) == m

\* main.go:50  the key a document is stored under.
RecordKeyByController(d) == d.Controller
RecordKey(d) == d.ID

\* The struct copy of an assignment, first half: the three string fields.
CopyStrings(dst, src) ==
  [dst EXCEPT !.Context = src.Context, !.ID = src.ID,
              !.Controller = src.Controller]

\* The struct copy of an assignment, second half: the slice header and the
\* two map pointers.  The referenced objects are not copied.
CopyRefsKeepExisting(dst, src) ==
  IF dst.VerificationMethods # Nil THEN dst
  ELSE [dst EXCEPT !.VerificationMethods = src.VerificationMethods,
                   !.VerificationRelations = src.VerificationRelations,
                   !.ServiceEndPoints = src.ServiceEndPoints]
CopyRefs(dst, src) ==
  [dst EXCEPT !.VerificationMethods = src.VerificationMethods,
              !.VerificationRelations = src.VerificationRelations,
              !.ServiceEndPoints = src.ServiceEndPoints]

\* A pointer to the element stored under key.
ElemOf(key) == <<"key", key>>

\* The element a map-element pointer refers to.
Deref(m, e) == IF e = ZeroElem THEN ZeroDoc ELSE m[e[2]]

\* What a lookup of id in m yields: the element and true, or the zero value
\* and false.
Stored(m, id) ==
  IF id \in DOMAIN m THEN [doc |-> m[id], found |-> TRUE]
  ELSE [doc |-> ZeroDoc, found |-> FALSE]

\* The control points of RegisterDID and of ResolveDID between call and
\* return.
RegRunning == {"reg_lock", "reg_assign", "reg_copy1", "reg_copy2", "reg_ret"}
ResRunning == {"res_lock", "res_access", "res_copy1", "res_copy2", "res_ret"}

\* sync.Mutex.Lock returns only when the mutex is unlocked.
CanLockNoMutex == TRUE
CanLock == mu = Unlocked

\* main.go:49, main.go:57  defer registry.mu.Unlock(): the mutex after the
\* deferred call has run, which it does when the function returns and when a
\* panic unwinds it.
UnlockNotDeferred(m) == m
DeferredUnlock(m) == Unlocked

\* main.go:58-59  doc is a variable of ResolveDID whose address is returned, so
\* every call allocates a new one; n variables have been allocated before.
NilPtr == 0
NewDocAddrShared(n) == 1
NewDocAddr(n) == n + 1

(***************************************************************************)
(* RegisterDID  (main.go:47-52)                                            *)
(***************************************************************************)

\* main.go:94  a caller builds a document and calls RegisterDID(doc); the
\* argument is passed by value.
RegCall(p, d) ==
  /\ pc[p] = "idle"
  /\ ops < MaxOps
  /\ ops' = ops + 1
  /\ pc' = [pc EXCEPT ![p] = "reg_lock"]
  /\ argDoc' = [argDoc EXCEPT ![p] = d]
  /\ registered' = registered \cup {d.ID}
  /\ UNCHANGED <<setup, allocs, mu, records, heap, argDid, elem, doc, found, ret,
                 lastReg, overwritten, allowed>>

\* main.go:48-49  registry.mu.Lock(); defer registry.mu.Unlock()
RegLock(p) ==
  /\ pc[p] = "reg_lock"
  /\ CanLock
  /\ mu' = p
  /\ pc' = [pc EXCEPT ![p] = "reg_assign"]
  /\ UNCHANGED <<setup, allocs, records, heap, locals, history>>

\* main.go:50  registry.records[doc.ID] = doc, step 1: mapassign finds or
\* creates the element for the key of a constructed map.
RegMapassign(p) ==
  /\ pc[p] = "reg_assign"
  /\ made
  /\ records' = Mapassign(records, RecordKey(argDoc[p]))
  /\ elem' = [elem EXCEPT ![p] = ElemOf(RecordKey(argDoc[p]))]
  /\ pc' = [pc EXCEPT ![p] = "reg_copy1"]
  /\ UNCHANGED <<setup, allocs, mu, heap, argDoc, argDid, doc, found, ret, history>>

\* main.go:50  step 2: the first words of doc are copied into the element.
RegCopyStrings(p) ==
  /\ pc[p] = "reg_copy1"
  /\ records' = [records EXCEPT ![elem[p][2]] = CopyStrings(@, argDoc[p])]
  /\ pc' = [pc EXCEPT ![p] = "reg_copy2"]
  /\ UNCHANGED <<setup, allocs, mu, heap, locals, history>>

\* main.go:50  step 3: the remaining words of doc are copied; the write is
\* complete.
RegCopyRefs(p) ==
  /\ pc[p] = "reg_copy2"
  /\ records' = [records EXCEPT ![elem[p][2]] = CopyRefs(@, argDoc[p])]
  /\ pc' = [pc EXCEPT ![p] = "reg_ret"]
  /\ lastReg' = MapPut(lastReg, argDoc[p].ID, argDoc[p])
  /\ overwritten' =
       IF argDoc[p].ID \in DOMAIN lastReg /\ lastReg[argDoc[p].ID] # argDoc[p]
         THEN overwritten \cup {argDoc[p].ID}
         ELSE overwritten
  /\ allowed' =
       [q \in Procs |->
          IF pc[q] \in ResRunning /\ argDid[q] = argDoc[p].ID
            THEN allowed[q] \cup {[doc |-> argDoc[p], found |-> TRUE]}
            ELSE allowed[q]]
  /\ UNCHANGED <<setup, allocs, mu, heap, locals, ops, registered>>

\* main.go:51  return nil, then the deferred Unlock of line 49 runs.
RegReturn(p) ==
  /\ pc[p] = "reg_ret"
  /\ ret' = [ret EXCEPT ![p] = [kind |-> "register", err |-> "nil"]]
  /\ mu' = DeferredUnlock(mu)
  /\ elem' = [elem EXCEPT ![p] = ZeroElem]
  /\ pc' = [pc EXCEPT ![p] = "reg_done"]
  /\ UNCHANGED <<setup, allocs, records, heap, argDoc, argDid, doc, found, history>>

\* main.go:50 on a registry whose records map is nil: mapassign panics
\* ("assignment to entry in nil map").  The panic unwinds RegisterDID, which
\* runs the deferred Unlock of line 49, and reaches the caller.
RegPanic(p) ==
  /\ pc[p] = "reg_assign"
  /\ ~made
  /\ ret' = [ret EXCEPT ![p] = [kind |-> "panic"]]
  /\ mu' = DeferredUnlock(mu)
  /\ pc' = [pc EXCEPT ![p] = "reg_panicked"]
  /\ UNCHANGED <<setup, allocs, records, heap, argDoc, argDid, elem, doc, found,
                 history>>

(***************************************************************************)
(* ResolveDID  (main.go:55-60)                                             *)
(***************************************************************************)

\* main.go:100  a caller calls resolver.ResolveDID(did).
ResCall(p, did) ==
  /\ pc[p] = "idle"
  /\ ops < MaxOps
  /\ ops' = ops + 1
  /\ pc' = [pc EXCEPT ![p] = "res_lock"]
  /\ argDid' = [argDid EXCEPT ![p] = did]
  /\ allowed' = [allowed EXCEPT ![p] = {Stored(lastReg, did)}]
  /\ UNCHANGED <<setup, allocs, mu, records, heap, argDoc, elem, doc, found, ret,
                 registered, lastReg, overwritten>>

\* main.go:56-57  resolver.registry.mu.Lock(); defer ...Unlock()
ResLock(p) ==
  /\ pc[p] = "res_lock"
  /\ CanLock
  /\ mu' = p
  /\ pc' = [pc EXCEPT ![p] = "res_access"]
  /\ UNCHANGED <<setup, allocs, records, heap, locals, history>>

\* main.go:58  doc, found := records[did], step 1: mapaccess2 yields a pointer
\* to the element (or to the zero value) and the found flag.
ResMapaccess(p) ==
  /\ pc[p] = "res_access"
  /\ records' = Mapaccess(records, argDid[p])
  /\ elem' = [elem EXCEPT ![p] =
                IF argDid[p] \in DOMAIN records THEN ElemOf(argDid[p]) ELSE ZeroElem]
  /\ found' = [found EXCEPT ![p] = argDid[p] \in DOMAIN records]
  /\ pc' = [pc EXCEPT ![p] = "res_copy1"]
  /\ UNCHANGED <<setup, allocs, mu, heap, argDoc, argDid, doc, ret, history>>

\* main.go:58  step 2: the first words of the element are copied into doc.
ResCopyStrings(p) ==
  /\ pc[p] = "res_copy1"
  /\ doc' = [doc EXCEPT ![p] = CopyStrings(@, Deref(records, elem[p]))]
  /\ pc' = [pc EXCEPT ![p] = "res_copy2"]
  /\ UNCHANGED <<setup, allocs, mu, records, heap, argDoc, argDid, elem, found, ret, history>>

\* main.go:58  step 3: the remaining words are copied into doc.
ResCopyRefs(p) ==
  /\ pc[p] = "res_copy2"
  /\ doc' = [doc EXCEPT ![p] = CopyRefs(@, Deref(records, elem[p]))]
  /\ pc' = [pc EXCEPT ![p] = "res_ret"]
  /\ UNCHANGED <<setup, allocs, mu, records, heap, argDoc, argDid, elem, found, ret, history>>

\* main.go:59  return &doc, found, then the deferred Unlock of line 57 runs.
\* The caller receives a pointer to the function's own doc.
ResReturn(p) ==
  /\ pc[p] = "res_ret"
  /\ ret' = [ret EXCEPT ![p] =
               [kind |-> "resolve", ptr |-> NewDocAddr(allocs),
                doc |-> doc[p], found |-> found[p]]]
  /\ allocs' = allocs + 1
  /\ mu' = DeferredUnlock(mu)
  /\ elem' = [elem EXCEPT ![p] = ZeroElem]
  /\ doc' = [doc EXCEPT ![p] = ZeroDoc]
  /\ found' = [found EXCEPT ![p] = FALSE]
  /\ pc' = [pc EXCEPT ![p] = "res_done"]
  /\ allowed' = [allowed EXCEPT ![p] = {}]
  /\ UNCHANGED <<setup, records, heap, argDoc, argDid, ops, registered,
                 lastReg, overwritten>>

(***************************************************************************)
(* What a caller does with the values it holds                             *)
(***************************************************************************)

\* A write through the reference r held in field f of some document value:
\* an element of the slice is assigned, or a map entry is set.  It changes
\* the object, which every struct holding r shares.
HeapWrite(r, f) == [heap EXCEPT ![r][f] = @ + 1]

\* main.go:21-28  after RegisterDID returned, the caller still holds the value
\* it passed in and writes to it: a string field of its own struct, or
\* through its slice or one of its maps.
ModifyPassedDoc(p, f) ==
  /\ pc[p] = "reg_done"
  /\ IF f = "Controller"
       THEN /\ argDoc' = [argDoc EXCEPT ![p].Controller = "mallory"]
            /\ UNCHANGED heap
       ELSE /\ argDoc[p][f] # Nil
            /\ heap' = HeapWrite(argDoc[p][f], f)
            /\ UNCHANGED argDoc
  /\ ops < MaxOps
  /\ ops' = ops + 1
  /\ UNCHANGED <<setup, allocs, mu, records, pc, argDid, elem, doc, found, ret,
                 registered, lastReg, overwritten, allowed>>

\* main.go:21-28, 59  after ResolveDID returned, the caller writes through
\* the returned *DIDDocument: a string field of that struct, or through its
\* slice or one of its maps.
ModifyReturnedDoc(p, f) ==
  /\ pc[p] = "res_done"
  /\ IF f = "Controller"
       THEN /\ ret' = [ret EXCEPT ![p].doc.Controller = "mallory"]
            /\ UNCHANGED heap
       ELSE /\ ret[p].doc[f] # Nil
            /\ heap' = HeapWrite(ret[p].doc[f], f)
            /\ UNCHANGED ret
  /\ ops < MaxOps
  /\ ops' = ops + 1
  /\ UNCHANGED <<setup, allocs, mu, records, pc, argDoc, argDid, elem, doc, found,
                 registered, lastReg, overwritten, allowed>>

\* The caller drops the values of the finished call and is ready for the next.
Continue(p) ==
  /\ pc[p] \in {"reg_done", "res_done"}
  /\ pc' = [pc EXCEPT ![p] = "idle"]
  /\ argDoc' = [argDoc EXCEPT ![p] = ZeroDoc]
  /\ argDid' = [argDid EXCEPT ![p] = ""]
  /\ ret' = [ret EXCEPT ![p] = NoRet]
  /\ UNCHANGED <<setup, allocs, mu, records, heap, elem, doc, found, history>>

Next ==
  \/ \E p \in Procs :
       \E f \in RefFields \cup {"Controller"} : ModifyReturnedDoc(p, f)
  \/ \E p \in Procs :
       \/ \E id \in IDs : RegCall(p, BuildDoc(id, p))
       \/ RegLock(p)
       \/ RegMapassign(p)
       \/ RegCopyStrings(p)
       \/ RegCopyRefs(p)
       \/ RegReturn(p)
       \/ \E did \in IDs : ResCall(p, did)
       \/ ResLock(p)
       \/ ResMapaccess(p)
       \/ ResCopyStrings(p)
       \/ ResCopyRefs(p)
       \/ ResReturn(p)
       \/ \E f \in RefFields \cup {"Controller"} : ModifyPassedDoc(p, f)
       \/ Continue(p)

Spec == Init /\ [][Next]_vars

(***************************************************************************)
(* main()  (main.go:63-109)                                                *)
(***************************************************************************)

\* Number of distinct key pairs ecdsa.GenerateKey can return.
NumKeys == 8

Keys == 1..NumKeys

\* main() runs in goroutine 1 and starts no other.
MainProc == 1

\* main.go:78-79  did := "did:example:" + subjectID
MainDID == "did:example:" \o Subject(MainProc)

\* main.go:63  main() is about to run; the registry it will construct at
\* lines 89-91 is empty and made.
InitMain ==
  /\ NoCallYet
  /\ made = TRUE
  /\ main = [pc |-> "start", err |-> "nil", key |-> 0, out |-> "none"]

\* main.go:64 with main.go:42-44  NewDIDController returns a fresh key pair,
\* or the error of ecdsa.GenerateKey when the random source fails.
MainKeygen ==
  /\ main.pc = "start"
  /\ \/ \E k \in Keys : main' = [main EXCEPT !.pc = "keygen_done", !.key = k]
     \/ main' = [main EXCEPT !.pc = "keygen_done", !.err = "keygen"]
  /\ UNCHANGED <<mu, records, heap, pc, locals, history, made, allocs>>

\* main.go:65  if err != nil
KeygenErrIgnored(err) == FALSE
KeygenFailed(err) == err # "nil"

\* main.go:65-92  on an error main prints it and returns; otherwise it builds
\* the verification method, the document, the registry and the resolver.
MainCheckKey ==
  /\ main.pc = "keygen_done"
  /\ main' = IF KeygenFailed(main.err)
             THEN [main EXCEPT !.pc = "exit", !.out = "Error creating controller"]
             ELSE [main EXCEPT !.pc = "built"]
  /\ UNCHANGED <<mu, records, heap, pc, locals, history, made, allocs>>

\* main.go:94  err = registry.RegisterDID(doc)
MainRegister ==
  /\ main.pc = "built"
  /\ RegCall(MainProc, BuildDoc(MainDID, MainProc))

\* main.go:95-98  if err != nil: print and return.
MainCheckRegister ==
  /\ main.pc = "built"
  /\ pc[MainProc] = "reg_done"
  /\ main' = IF ret[MainProc].err # "nil"
             THEN [main EXCEPT !.pc = "exit", !.out = "Error registering DID"]
             ELSE [main EXCEPT !.pc = "registered"]
  /\ UNCHANGED <<mu, records, heap, pc, locals, history, made, allocs>>

\* main.go:99  main goes on to the lookup.
MainProceed ==
  /\ main.pc = "registered"
  /\ pc[MainProc] = "reg_done"
  /\ Continue(MainProc)

\* main.go:100  verifiedDoc, found := resolver.ResolveDID(did)
MainResolve ==
  /\ main.pc = "registered"
  /\ ResCall(MainProc, MainDID)

\* main.go:101-108  if !found: print and return; otherwise print the document.
MainCheckResolve ==
  /\ main.pc = "registered"
  /\ pc[MainProc] = "res_done"
  /\ main' = [main EXCEPT !.pc = "exit",
                          !.out = IF ret[MainProc].found
                                  THEN "Resolved DID Document"
                                  ELSE "DID not found in registry"]
  /\ UNCHANGED <<mu, records, heap, pc, locals, history, made, allocs>>

NextMain ==
  \/ MainKeygen
  \/ MainCheckKey
  \/ MainRegister
  \/ RegLock(MainProc)
  \/ RegMapassign(MainProc)
  \/ RegCopyStrings(MainProc)
  \/ RegCopyRefs(MainProc)
  \/ RegReturn(MainProc)
  \/ MainCheckRegister
  \/ MainProceed
  \/ MainResolve
  \/ ResLock(MainProc)
  \/ ResMapaccess(MainProc)
  \/ ResCopyStrings(MainProc)
  \/ ResCopyRefs(MainProc)
  \/ ResReturn(MainProc)
  \/ MainCheckResolve

SpecMain == InitMain /\ [][NextMain]_vars

(***************************************************************************)
(* Scheduling                                                              *)
(***************************************************************************)

\* A step of goroutine p between the return of Lock and the return of the
\* method: it needs nothing but the processor.
Inside(p) ==
  \/ RegMapassign(p) \/ RegCopyStrings(p) \/ RegCopyRefs(p) \/ RegReturn(p)
  \/ ResMapaccess(p) \/ ResCopyStrings(p) \/ ResCopyRefs(p) \/ ResReturn(p)

\* main.go:48, main.go:56  the return of registry.mu.Lock() in goroutine p.
Acquire(p) == RegLock(p) \/ ResLock(p)

\* The Go scheduler preempts, so a runnable goroutine is eventually run (weak
\* fairness of its steps).  sync.Mutex hands the mutex to a goroutine that has
\* waited long enough (starvation mode), so a waiter that could take the mutex
\* again and again eventually takes it (strong fairness of Lock).  Whether and
\* when a caller makes its next call is left to the caller.
Fairness ==
  \A p \in Procs : WF_vars(Inside(p)) /\ SF_vars(Acquire(p))

FairSpec == Spec /\ Fairness

(***************************************************************************)
(* A registry that is the zero value of its type                           *)
(***************************************************************************)

\* main.go:31-34  VerifiableDataRegistry{} : the type has no constructor, and
\* its zero value has an unlocked mutex and a nil records map.
InitZero ==
  /\ NoCallYet
  /\ made = FALSE
  /\ main = NotInMain

\* The caller of a RegisterDID that panicked recovers (a deferred recover()
\* in the calling goroutine) and is ready for its next operation.  A panic
\* that is not recovered ends the program: no further step.
Recover(p) ==
  /\ pc[p] = "reg_panicked"
  /\ pc' = [pc EXCEPT ![p] = "idle"]
  /\ argDoc' = [argDoc EXCEPT ![p] = ZeroDoc]
  /\ ret' = [ret EXCEPT ![p] = NoRet]
  /\ UNCHANGED <<setup, allocs, mu, records, heap, argDid, elem, doc, found,
                 history>>

\* Goroutines calling a registry that was constructed either way.
NextAnyRegistry ==
  \/ Next
  \/ \E p \in Procs : RegPanic(p)
  \/ \E p \in Procs : Recover(p)

SpecAnyRegistry == (Init \/ InitZero) /\ [][NextAnyRegistry]_vars

(***************************************************************************)
(* Observations used by the properties                                     *)
(***************************************************************************)

\* What ResolveDID is about to return at main.go:59.
Result(p) == [doc |-> doc[p], found |-> found[p]]

\* A step of goroutine p inside RegisterDID's map write (main.go:50).
RegWriteStep(p) ==
  /\ pc[p] \in {"reg_assign", "reg_copy1", "reg_copy2"}
  /\ pc'[p] # pc[p]

\* A step of goroutine p that belongs to a RegisterDID call.
RegStep(p) ==
  /\ pc'[p] # pc[p]
  /\ \/ pc[p] \in RegRunning
     \/ pc[p] = "idle" /\ pc'[p] = "reg_lock"

\* A step of goroutine p that belongs to a ResolveDID call.
ResStep(p) ==
  /\ pc'[p] # pc[p]
  /\ \/ pc[p] \in ResRunning
     \/ pc[p] = "idle" /\ pc'[p] = "res_lock"

\* What a reader of document value d sees: the strings, and for the slice and
\* each map the object referred to with the writes made to it since it was
\* built.
ObjectContent(h, r, f) == IF r = Nil THEN <<>> ELSE <<r, h[r][f]>>

Content(h, d) ==
  [Context |-> d.Context, ID |-> d.ID, Controller |-> d.Controller,
   VerificationMethods |->
     ObjectContent(h, d.VerificationMethods, "VerificationMethods"),
   VerificationRelations |->
     ObjectContent(h, d.VerificationRelations, "VerificationRelations"),
   ServiceEndPoints |->
     ObjectContent(h, d.ServiceEndPoints, "ServiceEndPoints")]

\* What the registry stores, as a reader sees it.
StoredContent(m, h) == [id \in DOMAIN m |-> Content(h, m[id])]

(***************************************************************************)
(* Properties                                                              *)
(***************************************************************************)

\* C1  Round trip: a ResolveDID(id) that follows RegisterDID(d), d.ID = id,
\* with no later registration under id, returns found = true and a document
\* equal to d in every field: the same strings, and the slice and the maps
\* d refers to, with the content they have.
C1_RoundTrip ==
  \A p \in Procs :
    (pc[p] = "res_ret" /\ argDid[p] \in DOMAIN lastReg) =>
      /\ found[p]
      /\ doc[p] = lastReg[argDid[p]]
      /\ doc[p].ID = argDid[p]
      /\ Content(heap, doc[p]) = Content(heap, lastReg[argDid[p]])

C1_Witness ==
  \E p \in Procs :
    /\ pc[p] = "res_ret"
    /\ argDid[p] \in DOMAIN lastReg
    /\ found[p]
    /\ DOMAIN records = IDs
    /\ doc[p] = BuildDoc(argDid[p], p)

\* C2  Not found: a ResolveDID(id) for an identifier never passed as doc.ID to
\* RegisterDID returns found = false and the zero document, whatever else is
\* registered.
C2_NotFound ==
  \A p \in Procs :
    (pc[p] = "res_ret" /\ argDid[p] \notin registered) =>
      /\ ~found[p]
      /\ doc[p] = ZeroDoc

C2_Witness ==
  \E p \in Procs :
    /\ pc[p] = "res_ret"
    /\ argDid[p] \notin registered
    /\ ~found[p]
    /\ registered # {}
    /\ DOMAIN records # {}

\* C3  Last write wins: once a document registered under an identifier has
\* been replaced by a different one, ResolveDID returns exactly the later
\* document, and the RegisterDID that replaced it returned nil.
C3_LastWriteWins ==
  \A p \in Procs :
    /\ (pc[p] = "res_ret" /\ argDid[p] \in overwritten) =>
         /\ found[p]
         /\ doc[p] = lastReg[argDid[p]]
    /\ (pc[p] = "reg_done" /\ argDoc[p].ID \in overwritten) =>
         ret[p].err = "nil"

C3_Witness ==
  \E p \in Procs :
    /\ pc[p] = "res_ret"
    /\ argDid[p] \in overwritten
    /\ found[p]
    /\ \E q \in Procs \ {p} : doc[p] = BuildDoc(argDid[p], q)

\* C4  No lost update: every RegisterDID that has returned, and whose
\* identifier no other registration has taken over or is running for, is in
\* the map under its identifier, whatever the interleaving of the calls was;
\* in particular NumProcs goroutines registering pairwise distinct
\* identifiers all find their documents once all have returned.
C4_NoLostUpdate ==
  \A p \in Procs :
    (/\ pc[p] = "reg_done"
     /\ argDoc[p].ID \in DOMAIN lastReg
     /\ lastReg[argDoc[p].ID] = argDoc[p]
     /\ \A q \in Procs \ {p} :
          pc[q] \in RegRunning => argDoc[q].ID # argDoc[p].ID) =>
      Stored(records, argDoc[p].ID) = [doc |-> argDoc[p], found |-> TRUE]

C4_Witness ==
  /\ ops = NumProcs
  /\ \A p \in Procs :
       /\ pc[p] = "reg_done"
       /\ Stored(records, argDoc[p].ID) = [doc |-> BuildDoc(argDoc[p].ID, p), found |-> TRUE]
  /\ \A p, q \in Procs : p # q => argDoc[p].ID # argDoc[q].ID

\* C5  Read/write consistency: a ResolveDID(id) returns in full either what was
\* stored under id when it was called (a document, or not found) or a document
\* that a RegisterDID overlapping it stored under id, never a value with
\* fields of two documents.
C5_ReadConsistency ==
  \A p \in Procs :
    pc[p] = "res_ret" => Result(p) \in allowed[p]

C5_Witness ==
  \E p \in Procs :
    /\ pc[p] = "res_ret"
    /\ Cardinality(allowed[p]) = 2
    /\ found[p]
    /\ \E q \in Procs \ {p} : doc[p] = BuildDoc(argDid[p], q)
    /\ [doc |-> BuildDoc(argDid[p], p), found |-> TRUE] \in allowed[p]

\* C6  Independence of keys: no step of a RegisterDID of a document with
\* identifier idA changes what a lookup of any other identifier yields.
C6_KeyIndependence ==
  [][\A p \in Procs :
       RegStep(p) =>
         \A idB \in (IDs \cup DOMAIN records \cup DOMAIN records') \ {argDoc'[p].ID} :
           Stored(records', idB) = Stored(records, idB)]_vars

C6_Witness ==
  \E p \in Procs :
    /\ pc[p] = "reg_ret"
    /\ \E idB \in DOMAIN records \ {argDoc[p].ID} :
         \E q \in Procs \ {p} : records[idB] = BuildDoc(idB, q)

\* C7  ResolveDID never mutates the registry: no step of a ResolveDID call
\* changes the key set, a stored document or what a stored document refers
\* to; a lookup of an absent identifier creates no entry.
C7_ResolveDoesNotMutate ==
  [][\A p \in Procs :
       ResStep(p) =>
         /\ records' = records
         /\ StoredContent(records', heap') = StoredContent(records, heap)]_vars

C7_Witness ==
  \E p \in Procs :
    /\ pc[p] = "res_ret"
    /\ ~found[p]
    /\ argDid[p] \notin DOMAIN records
    /\ DOMAIN records # {}

\* C8  RegisterDID always succeeds: when its write is done the map holds the
\* document under doc.ID, also for the empty identifier and for an identifier
\* already present, and the call returns nil.
C8_RegisterSucceeds ==
  \A p \in Procs :
    /\ pc[p] = "reg_ret" =>
         Stored(records, argDoc[p].ID) = [doc |-> argDoc[p], found |-> TRUE]
    /\ pc[p] = "reg_done" => ret[p] = [kind |-> "register", err |-> "nil"]

C8_Witness ==
  \E p \in Procs :
    /\ pc[p] = "reg_ret"
    /\ argDoc[p].ID = ""
    /\ "" \in overwritten
    /\ records[""] = argDoc[p]

\* C9  A found document is returned as an owned copy: no write the caller
\* makes through the returned document changes what the registry stores.
C9_ReturnedDocIsOwnedCopy ==
  [][\A p \in Procs :
       (\E f \in RefFields \cup {"Controller"} : ModifyReturnedDoc(p, f)) =>
         StoredContent(records', heap') = StoredContent(records, heap)]_vars

\* C10  The registry is mutated only through RegisterDID: what it stores
\* changes only in a step of RegisterDID's map write, also when a caller
\* afterwards modifies the value it passed in.
C10_MutatedOnlyByRegister ==
  [][StoredContent(records', heap') # StoredContent(records, heap) =>
       \E p \in Procs : RegWriteStep(p)]_vars

\* The control points at which a goroutine reads or writes registry.records
\* (main.go:50, main.go:58) or has done so and not yet run its deferred
\* Unlock.
InMapAccess ==
  {"reg_assign", "reg_copy1", "reg_copy2", "reg_ret",
   "res_access", "res_copy1", "res_copy2", "res_ret"}

\* C11  Mutual exclusion: at most one goroutine is inside the map access of
\* RegisterDID or ResolveDID, and a goroutine that is there holds the registry
\* mutex, so lookups serialize with each other and with registrations.
C11_MutualExclusion ==
  /\ Cardinality({p \in Procs : pc[p] \in InMapAccess}) <= 1
  /\ \A p \in Procs : pc[p] \in InMapAccess => mu = p

C11_Witness ==
  \E p, q \in Procs :
    /\ p # q
    /\ pc[p] = "res_copy1"
    /\ mu = p
    /\ pc[q] \in {"res_lock", "reg_lock"}
    /\ argDid[q] = argDid[p] \/ argDoc[q].ID = argDid[p]

\* A goroutine that is not inside RegisterDID or ResolveDID: it has made no
\* call, or its call has returned, or its call has panicked.
Outside == {"idle", "reg_done", "res_done", "reg_panicked"}

\* C12  Lock release on every exit path: a goroutine whose RegisterDID or
\* ResolveDID has finished, by return or by the panic of a write to a nil
\* records map, does not hold the registry mutex; the mutex is unlocked or
\* held by a goroutine that is between its Lock and its deferred Unlock.
C12_LockReleasedOnExit ==
  /\ \A p \in Procs : pc[p] \in Outside => mu # p
  /\ mu # Unlocked => pc[mu] \in InMapAccess

C12_Witness ==
  \E p, q \in Procs :
    /\ ~made
    /\ pc[p] = "reg_panicked"
    /\ ret[p].kind = "panic"
    /\ pc[q] = "res_ret"
    /\ mu = q

\* A call is pending and some goroutine inside a call can take a step.
CallCanStep ==
  (\E p \in Procs : pc[p] \in RegRunning \cup ResRunning)
    => (\E p \in Procs : ENABLED (Inside(p) \/ Acquire(p)))

\* C13  No operation blocks indefinitely: with the goroutines scheduled fairly
\* and the mutex acquired fairly, every started RegisterDID and every started
\* ResolveDID returns, and there is no state in which a call is pending and
\* no goroutine inside a call can step.
C13_NoBlocking ==
  /\ []CallCanStep
  /\ \A p \in Procs : pc[p] \in RegRunning ~> pc[p] = "reg_done"
  /\ \A p \in Procs : pc[p] \in ResRunning ~> pc[p] = "res_done"

C13_Witness ==
  \E p, q \in Procs :
    /\ pc[p] = "res_lock"
    /\ pc[q] \in InMapAccess
    /\ mu = q
    /\ ~ENABLED Acquire(p)

\* No goroutine is part-way through the struct copy of a map write.
NoWriteInProgress == \A p \in Procs : pc[p] \notin {"reg_copy1", "reg_copy2"}

\* C14  Atomicity (linearizability): the calls behave as if each were applied
\* in one step, taken while it holds the mutex, to a sequential
\* identifier-to-document map (lastReg): outside a write in progress the
\* registry's map is that sequential map, a RegisterDID about to return has
\* put its document there, and a ResolveDID about to return carries the
\* sequential map's answer.
C14_Linearizable ==
  /\ NoWriteInProgress => records = lastReg
  /\ \A p \in Procs :
       pc[p] = "reg_ret" =>
         /\ mu = p
         /\ Stored(lastReg, RecordKey(argDoc[p])) = [doc |-> argDoc[p], found |-> TRUE]
  /\ \A p \in Procs :
       pc[p] = "res_ret" =>
         /\ mu = p
         /\ Result(p) = Stored(lastReg, argDid[p])

C14_Witness ==
  \E p, q \in Procs :
    /\ pc[p] = "res_ret"
    /\ found[p]
    /\ pc[q] = "reg_lock"
    /\ argDoc[q].ID = argDid[p]
    /\ argDoc[q] # doc[p]

\* A ResolveDID about to return, for an identifier that a ResolveDID which
\* has already returned found, finds it too.
FoundStaysFound ==
  \A p, q \in Procs :
    (/\ pc[q] = "res_done"
     /\ ret[q].found
     /\ pc[p] = "res_ret"
     /\ argDid[p] = argDid[q]) => found[p]

\* C15  Per-key lifecycle: no step removes an identifier from the registry;
\* an identifier becomes present only by the map write of a RegisterDID for
\* that identifier; and once a ResolveDID has returned found=true for an
\* identifier, a later ResolveDID of the same identifier returns found=true.
C15_NeverRemoved ==
  [][/\ DOMAIN records \subseteq DOMAIN records'
     /\ \A id \in DOMAIN records' \ DOMAIN records :
          \E p \in Procs : RegWriteStep(p) /\ RecordKey(argDoc[p]) = id
     /\ FoundStaysFound']_vars

C15_Witness ==
  \E p, q \in Procs :
    /\ pc[q] = "res_done"
    /\ ret[q].found
    /\ pc[p] = "res_ret"
    /\ argDid[p] = argDid[q]
    /\ found[p]
    /\ argDid[p] \in overwritten

\* What the ResolveDID of goroutine q returned to it.
Returned(q) == [doc |-> ret[q].doc, found |-> ret[q].found]

\* C16  The resolver holds no state of its own and does no caching: what a
\* ResolveDID is about to return is what the registry holds under the
\* identifier now, whatever was resolved or registered before and whichever
\* goroutine's resolver is asked; so a resolver asked for an identifier whose
\* entry is still the one another resolver returned gives the same found flag
\* and document.
C16_NoResolverState ==
  /\ \A p \in Procs :
       pc[p] = "res_ret" => Result(p) = Stored(records, argDid[p])
  /\ \A p, q \in Procs :
       (/\ pc[p] = "res_ret"
        /\ pc[q] = "res_done"
        /\ argDid[p] = argDid[q]
        /\ Returned(q) = Stored(records, argDid[q])) => Result(p) = Returned(q)

C16_Witness ==
  \E p, q \in Procs :
    /\ p # q
    /\ pc[p] = "res_ret"
    /\ pc[q] = "res_done"
    /\ argDid[p] = argDid[q]
    /\ found[p]
    /\ Result(p) = Returned(q)
    /\ doc[p].Controller = Subject(p)

\* C17  Key-generation failure aborts the flow before the registry: in
\* main(), when NewDIDController returned an error the program reports it and
\* ends with no RegisterDID or ResolveDID ever called; RegisterDID is running
\* or done only after a successful key generation, and ResolveDID only after
\* RegisterDID returned nil.
C17_KeygenFailureAborts ==
  /\ main.err # "nil" =>
       /\ pc[MainProc] = "idle"
       /\ ops = 0
       /\ records = <<>>
       /\ main.pc \in {"keygen_done", "exit"}
       /\ main.pc = "exit" => main.out = "Error creating controller"
  /\ pc[MainProc] \in RegRunning \cup {"reg_done"} =>
       /\ main.err = "nil"
       /\ main.key \in Keys
       /\ main.pc \in {"built", "registered"}
  /\ pc[MainProc] \in ResRunning \cup {"res_done"} =>
       /\ main.pc \in {"registered", "exit"}
       /\ main.err = "nil"
       /\ MainDID \in DOMAIN records
       /\ ops = 2

C17_Witness ==
  /\ main.pc = "exit"
  /\ main.err = "keygen"
  /\ main.out = "Error creating controller"
  /\ ops = 0
  /\ pc[MainProc] = "idle"

\* The step in which the ResolveDID of goroutine p returns.
ResReturnStep(p) == pc[p] = "res_ret" /\ pc'[p] = "res_done"

\* C18  ResolveDID never returns a nil document pointer: the pointer it
\* returns is not nil, is none of the addresses returned by earlier calls
\* (in particular none that another caller still holds), and when found is
\* false the document it points to has every field zero.
C18_FreshNonNilPointer ==
  [][\A p \in Procs :
       ResReturnStep(p) =>
         /\ ret'[p].ptr # NilPtr
         /\ ret'[p].ptr \notin 1..allocs
         /\ \A q \in Procs \ {p} :
              pc[q] = "res_done" => ret[q].ptr # ret'[p].ptr
         /\ ~ret'[p].found => ret'[p].doc = ZeroDoc]_vars

C18_Witness ==
  \E p, q \in Procs :
    /\ pc[p] = "res_done"
    /\ pc[q] = "res_done"
    /\ ~ret[p].found
    /\ ret[p].doc = ZeroDoc
    /\ ret[q].found
    /\ ret[p].ptr # NilPtr
    /\ ret[q].ptr # NilPtr
    /\ ret[p].ptr # ret[q].ptr

====
